---- MODULE Spec2Model ----
(***************************************************************************)
(* A model of the supermemo2 crate (src/src/lib.rs): the Quality grade,    *)
(* its ordering and equality, Quality::from, and the Item with its         *)
(* constructors, interval() and the two review methods answer and          *)
(* answer_mut.                                                             *)
(*                                                                         *)
(* Numbers.  An f64 is carried as an exact decimal fixed-point number, an  *)
(* integer count of 1/Scale units (2.5 is 250); every literal of the       *)
(* source and every easiness factor the model draws is a whole number of   *)
(* such units, and so is every sum and product new_efactor forms.  The     *)
(* power in interval() is formed exactly, on digit sequences in base       *)
(* Scale, so the ceiling is the ceiling of the exact product.  The binary  *)
(* rounding of f64 (1.3 + 0.1 is the double next above 1.4, and a factor   *)
(* that reaches 1.5 by such sums is a few ulps off, so that 6 * EF just    *)
(* above 9 rounds up to 10) is below the resolution of this model.         *)
(* Easiness factors are positive: a review never stores less than 0.5.     *)
(* usize is the pointer width of the target (16, 32 or 64 bits); the       *)
(* 16-bit width is modelled, the one whose values TLC's integers hold.     *)
(* Overflow of `repetitions + 1` panics when the build has overflow        *)
(* checks (debug) and wraps otherwise (release).                           *)
(***************************************************************************)
EXTENDS Integers, Sequences, FiniteSets, TLC

VARIABLES
    overflow_checks, \* the build profile: TRUE when integer overflow panics
    item,            \* the Item under review: [repetitions, efactor]
    pre,             \* history: the Item the last operation was called on
    op,              \* history: the last operation on the item
    given,           \* history: the Quality of the last review, or "none"
    origin,          \* history: the constructor the item descends from
    trail,           \* history: the first MaxTrail qualities since Item::new()
    panicked,        \* TRUE once an operation has panicked
    made,            \* the last Quality::from call: [called, arg, result]
    eq               \* the running Quality == Quality call

vars == <<overflow_checks, item, pre, op, given, origin, trail, panicked, made, eq>>

itemVars == <<overflow_checks, item, pre, op, given, origin, trail, panicked>>

(***************************************************************************)
(* Bounds of the model                                                     *)
(***************************************************************************)
MaxReps == 5         \* reviews are explored up to this repetition count
MaxEF == 400         \* and up to this easiness factor (in 1/Scale units)
MaxTrail == 3        \* qualities remembered since Item::new()
MaxRaw == 8          \* Quality::from is called with 0..MaxRaw (and probes)
StackFrames == 3     \* frames the call stack holds before it overflows
MaxEqCalls == 4      \* invocations of eq followed in one comparison

(***************************************************************************)
(* Number representation                                                   *)
(***************************************************************************)
Scale == 100
UsizeBits == 16
UsizeMax == 2^UsizeBits - 1
I32Max == 2147483647

\* a source literal a.bc as a fixed-point number
F(units, hundredths) == units * Scale + hundredths

\* f64 multiplication, exact whenever a is a whole number
FMul(a, b) == (a * b) \div Scale

\* `x as i32` on a usize: the low 32 bits, read as two's complement
AsI32(n) == IF n <= I32Max THEN n ELSE (n - I32Max) - I32Max - 2

\* usize addition: [panic, value]
UsizeAdd(a, b) ==
    IF a + b <= UsizeMax
    THEN [panic |-> FALSE, value |-> a + b]
    ELSE IF overflow_checks
         THEN [panic |-> TRUE, value |-> 0]
         ELSE [panic |-> FALSE, value |-> (a + b) % (UsizeMax + 1)]

\* natural numbers as little-endian digit sequences in base Scale
RECURSIVE MulDigits(_, _, _)
MulDigits(ds, k, carry) ==
    IF ds = <<>>
    THEN IF carry = 0 THEN <<>>
         ELSE <<carry % Scale>> \o MulDigits(<<>>, k, carry \div Scale)
    ELSE LET p == Head(ds) * k + carry
         IN  <<p % Scale>> \o MulDigits(Tail(ds), k, p \div Scale)

\* efactor.powi(n) for n >= 0: the digits of efactor^n, with n places after
\* the point
RECURSIVE powi(_, _)
powi(efactor, n) ==
    IF n = 0 THEN <<1>> ELSE MulDigits(powi(efactor, n - 1), efactor, 0)

\* the value of a digit sequence, saturated at UsizeMax + 1
RECURSIVE DigitsValue(_)
DigitsValue(ds) ==
    IF ds = <<>> THEN 0
    ELSE LET hi == DigitsValue(Tail(ds))
         IN  IF hi > UsizeMax THEN UsizeMax + 1
             ELSE IF hi * Scale + Head(ds) > UsizeMax THEN UsizeMax + 1
                  ELSE hi * Scale + Head(ds)

\* mutant: the product is truncated, not rounded up
FloorAsUsize(ds, places) ==
    LET n == Len(ds)
        high == IF places >= n THEN <<>> ELSE SubSeq(ds, places + 1, n)
        c == DigitsValue(high)
    IN  IF c > UsizeMax THEN UsizeMax ELSE c

\* (x).ceil() as usize for x >= 0 given as digits with `places` places after
\* the point; the cast saturates at usize::MAX
CeilAsUsize(ds, places) ==
    LET n == Len(ds)
        low == IF places >= n THEN ds ELSE SubSeq(ds, 1, places)
        high == IF places >= n THEN <<>> ELSE SubSeq(ds, places + 1, n)
        frac == \E i \in 1..Len(low) : low[i] # 0
        c == DigitsValue(high) + (IF frac THEN 1 ELSE 0)
    IN  IF c > UsizeMax THEN UsizeMax ELSE c

(***************************************************************************)
(* Quality                                                                 *)
(***************************************************************************)
Quality == {"Zero", "One", "Two", "Three", "Four", "Five"}

\* the match of Ord::cmp on self (and on other)
Discriminant(q) ==
    CASE q = "Zero" -> 0
      [] q = "One" -> 1
      [] q = "Two" -> 2
      [] q = "Three" -> 3
      [] q = "Four" -> 4
      [] q = "Five" -> 5

\* Ord::cmp
cmp(self, other) ==
    LET a == Discriminant(self)
        b == Discriminant(other)
    IN  IF a < b THEN "Less" ELSE IF a = b THEN "Equal" ELSE "Greater"

\* PartialOrd::partial_cmp
partial_cmp(self, other) == [some |-> TRUE, value |-> cmp(self, other)]

\* self < other, the provided method of PartialOrd
lt(self, other) ==
    LET o == partial_cmp(self, other) IN o.some /\ o.value = "Less"

\* From<&Quality> for f64
QualityToF64(q) ==
    CASE q = "Zero" -> F(0, 0)
      [] q = "One" -> F(1, 0)
      [] q = "Two" -> F(2, 0)
      [] q = "Three" -> F(3, 0)
      [] q = "Four" -> F(4, 0)
      [] q = "Five" -> F(5, 0)

\* mutant: the table is one off, 6 is accepted and 0 rejected
QualityFrom_one_based(q) ==
    CASE q = 1 -> [ok |-> TRUE, value |-> "Zero"]
      [] q = 2 -> [ok |-> TRUE, value |-> "One"]
      [] q = 3 -> [ok |-> TRUE, value |-> "Two"]
      [] q = 4 -> [ok |-> TRUE, value |-> "Three"]
      [] q = 5 -> [ok |-> TRUE, value |-> "Four"]
      [] q = 6 -> [ok |-> TRUE, value |-> "Five"]
      [] OTHER -> [ok |-> FALSE, error |-> "QualityAboveFiveError", q |-> q]

\* Quality::from
QualityFrom(q) ==
    CASE q = 0 -> [ok |-> TRUE, value |-> "Zero"]
      [] q = 1 -> [ok |-> TRUE, value |-> "One"]
      [] q = 2 -> [ok |-> TRUE, value |-> "Two"]
      [] q = 3 -> [ok |-> TRUE, value |-> "Three"]
      [] q = 4 -> [ok |-> TRUE, value |-> "Four"]
      [] q = 5 -> [ok |-> TRUE, value |-> "Five"]
      [] OTHER -> [ok |-> FALSE, error |-> "QualityAboveFiveError", q |-> q]

(***************************************************************************)
(* Item                                                                    *)
(***************************************************************************)
\* Item::new
ItemNew == [repetitions |-> 0, efactor |-> F(2, 50)]

\* Item::from
ItemFrom(repetitions, efactor) == [repetitions |-> repetitions, efactor |-> efactor]

\* mutant: the exponent is repetitions - 1
interval_exponent(self) ==
    CASE self.repetitions = 0 -> 0
      [] self.repetitions = 1 -> 1
      [] self.repetitions = 2 -> 6
      [] OTHER ->
            LET n == AsI32(self.repetitions) - 1
            IN  CeilAsUsize(MulDigits(powi(self.efactor, n), F(6, 0), 0), n + 1)

\* mutant: the easiness factor is floored at 1.3 before it is used
interval_floored(self) ==
    CASE self.repetitions = 0 -> 0
      [] self.repetitions = 1 -> 1
      [] self.repetitions = 2 -> 6
      [] OTHER ->
            LET n == AsI32(self.repetitions) - 2
                ef == IF self.efactor < F(1, 30) THEN F(1, 30) ELSE self.efactor
            IN  CeilAsUsize(MulDigits(powi(ef, n), F(6, 0), 0), n + 1)

\* Item::interval
interval(self) ==
    CASE self.repetitions = 0 -> 0
      [] self.repetitions = 1 -> 1
      [] self.repetitions = 2 -> 6
      [] OTHER ->
            LET n == AsI32(self.repetitions) - 2
            IN  CeilAsUsize(MulDigits(powi(self.efactor, n), F(6, 0), 0), n + 1)

\* mutant: the floor is applied to the value written
new_efactor_floor_on_write(efactor, quality) ==
    LET q == QualityToF64(quality)
        ef == efactor + (F(0, 10) - FMul(F(5, 0) - q, F(0, 8) + FMul(F(5, 0) - q, F(0, 2))))
    IN  IF ef < F(1, 30) THEN F(1, 30) ELSE ef

\* mutant: the inner coefficient is 0.2, not 0.02
new_efactor_coefficient(efactor, quality) ==
    LET q == QualityToF64(quality)
        ef == IF efactor < F(1, 30) THEN F(1, 30) ELSE efactor
    IN  ef + (F(0, 10) - FMul(F(5, 0) - q, F(0, 8) + FMul(F(5, 0) - q, F(0, 20))))

\* Item::new_efactor
new_efactor(efactor, quality) ==
    LET q == QualityToF64(quality)
        ef == IF efactor < F(1, 30) THEN F(1, 30) ELSE efactor
    IN  ef + (F(0, 10) - FMul(F(5, 0) - q, F(0, 8) + FMul(F(5, 0) - q, F(0, 2))))

\* mutant: a lapse resets to 0
new_repetitions_zero(repetitions, quality) ==
    IF lt(quality, "Three")
    THEN [panic |-> FALSE, value |-> 0]
    ELSE UsizeAdd(repetitions, 1)

\* Item::new_repetitions: [panic, value]
new_repetitions(repetitions, quality) ==
    IF lt(quality, "Three")
    THEN [panic |-> FALSE, value |-> 1]
    ELSE UsizeAdd(repetitions, 1)

\* Item::answer: [panic, item]
answer(self, quality) ==
    LET r == new_repetitions(self.repetitions, quality)
    IN  IF r.panic
        THEN [panic |-> TRUE, item |-> self]
        ELSE [panic |-> FALSE,
              item |-> [repetitions |-> r.value,
                        efactor |-> new_efactor(self.efactor, quality)]]

\* mutant: the easiness factor is not assigned
answer_mut_keeps_efactor(self, quality) ==
    LET r == new_repetitions(self.repetitions, quality)
    IN  IF r.panic
        THEN [panic |-> TRUE, item |-> self]
        ELSE [panic |-> FALSE, item |-> [self EXCEPT !.repetitions = r.value]]

\* Item::answer_mut: [panic, item], the item as the two assignments leave it
answer_mut(self, quality) ==
    LET r == new_repetitions(self.repetitions, quality)
    IN  IF r.panic
        THEN [panic |-> TRUE, item |-> self]
        ELSE LET s1 == [self EXCEPT !.repetitions = r.value]
                 s2 == [s1 EXCEPT !.efactor = new_efactor(s1.efactor, quality)]
             IN  [panic |-> FALSE, item |-> s2]

(***************************************************************************)
(* The state machine of one Item                                           *)
(***************************************************************************)
\* repetition counts and easiness factors Item::from is called with
FromRepetitions == 0..MaxReps
FromEfactors == {F(0, 50), F(1, 16), F(1, 30), F(2, 40), F(2, 50), F(3, 90)}
WordRepetitions == (UsizeMax - 1)..UsizeMax

\* the part of the state space explored
Capped(it) ==
    /\ it.efactor <= MaxEF
    /\ it.repetitions <= MaxReps \/ it.repetitions >= UsizeMax - 1

NoCall == [called |-> FALSE]
Untracked == <<"untracked">>
NoEq == [self |-> "none", other |-> "none", depth |-> 0, calls |-> 0,
         status |-> "idle", result |-> FALSE]

Init ==
    /\ overflow_checks \in BOOLEAN
    /\ item = ItemNew
    /\ pre = ItemNew
    /\ op = "new"
    /\ given = "none"
    /\ origin = "new"
    /\ trail = <<>>
    /\ panicked = FALSE
    /\ made = NoCall
    /\ eq = NoEq

New ==
    /\ ~panicked
    /\ item' = ItemNew
    /\ pre' = ItemNew
    /\ op' = "new"
    /\ given' = "none"
    /\ origin' = "new"
    /\ trail' = <<>>
    /\ UNCHANGED <<overflow_checks, panicked, made, eq>>

Construct(repetitions, efactor) ==
    /\ ~panicked
    /\ item' = ItemFrom(repetitions, efactor)
    /\ pre' = item'
    /\ op' = "from"
    /\ given' = "none"
    /\ origin' = "from"
    /\ trail' = Untracked
    /\ UNCHANGED <<overflow_checks, panicked, made, eq>>

From == \E r \in FromRepetitions, ef \in FromEfactors : Construct(r, ef)

FromWord == \E r \in WordRepetitions, ef \in FromEfactors : Construct(r, ef)

Review(name, q, r) ==
    /\ ~panicked
    /\ Capped(r.item)
    /\ item' = r.item
    /\ panicked' = r.panic
    /\ pre' = item
    /\ op' = name
    /\ given' = q
    /\ trail' = IF trail # Untracked /\ Len(trail) < MaxTrail
                THEN Append(trail, q) ELSE Untracked
    /\ UNCHANGED <<overflow_checks, origin, made, eq>>

Answer == \E q \in Quality : Review("answer", q, answer(item, q))

AnswerMut == \E q \in Quality : Review("answer_mut", q, answer_mut(item, q))

Next == New \/ From \/ Answer \/ AnswerMut

Spec == Init /\ [][Next]_vars

NextWord == FromWord \/ Answer \/ AnswerMut

SpecWord == Init /\ [][NextWord]_vars

(***************************************************************************)
(* Quality::from and Quality == Quality, called by a client                *)
(***************************************************************************)
\* the integers Quality::from is called with
RawQualities == (0..MaxRaw) \cup {255, UsizeMax}

CallQualityFrom ==
    /\ eq.status # "aborted"
    /\ \E q \in RawQualities : made' = [called |-> TRUE, arg |-> q, result |-> QualityFrom(q)]
    /\ UNCHANGED <<itemVars, eq>>

\* a client evaluates a == b: the first frame of PartialEq::eq
EqCall ==
    /\ eq.status = "idle"
    /\ \E a \in Quality, b \in Quality :
          eq' = [self |-> a, other |-> b, depth |-> 1, calls |-> 1,
                 status |-> "running", result |-> FALSE]
    /\ UNCHANGED <<itemVars, made>>

\* the body of PartialEq::eq: `self == other` on two &Quality is eq(self, other)
\* again, in a new frame or, where the build makes it a tail call, in the same
EqBody ==
    /\ eq.status = "running"
    /\ eq.calls < MaxEqCalls
    /\ \E tail \in BOOLEAN :
          /\ tail \/ eq.depth < StackFrames
          /\ eq' = [eq EXCEPT !.calls = @ + 1,
                              !.depth = IF tail THEN @ ELSE @ + 1]
    /\ UNCHANGED <<itemVars, made>>

\* the call that finds the stack full ends the process; no path of the body
\* returns, so status never becomes "returned"
EqStackOverflow ==
    /\ eq.status = "running"
    /\ eq.depth = StackFrames
    /\ eq' = [eq EXCEPT !.status = "aborted"]
    /\ UNCHANGED <<itemVars, made>>

NextQuality == CallQualityFrom \/ EqCall \/ EqBody \/ EqStackOverflow

SpecQuality == Init /\ [][NextQuality]_vars

(***************************************************************************)
(* Arithmetic the properties are stated with                               *)
(***************************************************************************)
Reviewed == op \in {"answer", "answer_mut"}

Lapse == {"Zero", "One", "Two"}

Success == {"Three", "Four", "Five"}

\* the digits of a natural number, and of c * Scale^places
RECURSIVE NatDigits(_)
NatDigits(c) == IF c = 0 THEN <<>> ELSE <<c % Scale>> \o NatDigits(c \div Scale)

Shifted(c, places) == [i \in 1..places |-> 0] \o NatDigits(c)

DigitAt(ds, i) == IF i <= Len(ds) THEN ds[i] ELSE 0

\* a < b and a <= b on digit sequences
DigitsLess(a, b) ==
    LET L == IF Len(a) > Len(b) THEN Len(a) ELSE Len(b)
        diff == {i \in 1..L : DigitAt(a, i) # DigitAt(b, i)}
    IN  /\ diff # {}
        /\ LET m == CHOOSE i \in diff : \A j \in diff : j <= i
           IN  DigitAt(a, m) < DigitAt(b, m)

DigitsLessEq(a, b) == ~DigitsLess(b, a)

\* c = ceil(6 * (ef / Scale)^n):  (c - 1) * Scale^n < 6 * ef^n <= c * Scale^n
IsCeilOfSixTimesPower(c, ef, n) ==
    LET x == MulDigits(powi(ef, n), 6, 0)
    IN  /\ DigitsLessEq(x, Shifted(c, n))
        /\ c = 0 \/ DigitsLess(Shifted(c - 1, n), x)

\* 0.1 - (5 - q) * (0.08 + (5 - q) * 0.02), in hundredths
Delta(q) == LET d == 5 - Discriminant(q) IN 10 - d * (8 + d * 2)

Floored(ef) == IF ef < 130 THEN 130 ELSE ef

(***************************************************************************)
(* C1: a review stores max(EF, 1.3) + (0.1 - (5-q)*(0.08 + (5-q)*0.02)):   *)
(* the floor is on the value read, not on the value written.  A stored EF  *)
(* of 0.5 reviewed with Five gives 1.4; Item::from(3, 2.4) reviewed with   *)
(* Five gives 2.5.                                                         *)
(***************************************************************************)
C1_EasinessUpdate ==
    (Reviewed /\ ~panicked) =>
        /\ item.efactor = Floored(pre.efactor) + Delta(given)
        /\ (pre.efactor = 50 /\ given = "Five") => item.efactor = 140
        /\ (pre = ItemFrom(3, 240) /\ given = "Five") => item.efactor = 250

\* a review of a stored 0.5 with Five has stored 1.4
C1_Witness ==
    Reviewed /\ pre.efactor = 50 /\ given = "Five" /\ item.efactor = 140

(***************************************************************************)
(* C2: a review with Zero, One or Two yields repetitions = 1, whatever the *)
(* item was, and interval() of the result is 1.                            *)
(***************************************************************************)
C2_LapseResets ==
    (Reviewed /\ given \in Lapse) =>
        ~panicked /\ item.repetitions = 1 /\ interval(item) = 1

C2_Witness ==
    Reviewed /\ given = "Two" /\ pre.repetitions >= 3 /\ item.repetitions = 1

(***************************************************************************)
(* C3: a review with Three, Four or Five yields repetitions = R + 1 and    *)
(* does not fail, for every R of the machine word, its maximum included.   *)
(***************************************************************************)
C3_SuccessAdvances ==
    (Reviewed /\ given \in Success) =>
        ~panicked /\ item.repetitions = pre.repetitions + 1

(***************************************************************************)
(* C4: Quality::from(q) is Ok with the grade q for q in 0..5, and is       *)
(* Err(QualityAboveFiveError(q)), carrying q, for every q above 5.         *)
(***************************************************************************)
C4_QualityDomain ==
    made.called =>
        IF made.arg <= 5
        THEN /\ made.result.ok
             /\ made.result.value \in Quality
             /\ Discriminant(made.result.value) = made.arg
        ELSE /\ ~made.result.ok
             /\ made.result.error = "QualityAboveFiveError"
             /\ made.result.q = made.arg

C4_Witness ==
    made.called /\ made.arg = 255 /\ ~made.result.ok

(***************************************************************************)
(* C5: interval() is 0, 1, 6 for repetitions 0, 1, 2 and                   *)
(* ceil(6 * EF^(repetitions - 2)) from 3 on, EF being the stored factor;   *)
(* Item::new().interval() = 0 and Item::from(5, 3.9).interval() = 356.     *)
(***************************************************************************)
C5_IntervalTable ==
    /\ item.repetitions = 0 => interval(item) = 0
    /\ item.repetitions = 1 => interval(item) = 1
    /\ item.repetitions = 2 => interval(item) = 6
    /\ item.repetitions >= 3 =>
          IsCeilOfSixTimesPower(interval(item), item.efactor, item.repetitions - 2)
    /\ item = ItemNew => interval(item) = 0
    /\ item = ItemFrom(5, 390) => interval(item) = 356

C5_Witness ==
    op = "from" /\ item = ItemFrom(5, 390) /\ interval(item) = 356

(***************************************************************************)
(* C6: from Item::new(), the reviews Four, Three, Five take repetitions    *)
(* through 1, 2, 3 and leave interval() = 15.                              *)
(***************************************************************************)
C6_DocumentedScenario ==
    /\ trail = <<"Four">> => item.repetitions = 1
    /\ trail = <<"Four", "Three">> => item.repetitions = 2
    /\ trail = <<"Four", "Three", "Five">> =>
          item.repetitions = 3 /\ interval(item) = 15

C6_Witness ==
    origin = "new" /\ trail = <<"Four", "Three", "Five">> /\ interval(item) = 15

(***************************************************************************)
(* C7 (as claimed): for repetitions >= 3, interval() is                    *)
(* ceil(6 * max(EF, 1.3)^(repetitions - 2)), the factor clamped.           *)
(***************************************************************************)
C7_IntervalClamped ==
    item.repetitions >= 3 =>
        IsCeilOfSixTimesPower(interval(item), Floored(item.efactor),
                              item.repetitions - 2)

(***************************************************************************)
(* C7 (amended): for repetitions >= 3, interval() is the clamped value     *)
(* when the stored EF is at least 1.3; with a stored EF below 1.3 it is    *)
(* ceil(6 * EF^(repetitions - 2)) of the stored EF, at most the clamped    *)
(* value.                                                                  *)
(***************************************************************************)
C7_IntervalUsesStored ==
    item.repetitions >= 3 =>
        LET n == item.repetitions - 2
            c == interval(item)
        IN  IF item.efactor >= 130
            THEN IsCeilOfSixTimesPower(c, Floored(item.efactor), n)
            ELSE /\ IsCeilOfSixTimesPower(c, item.efactor, n)
                 /\ c = 0 \/ DigitsLess(Shifted(c - 1, n),
                                        MulDigits(powi(130, n), 6, 0))

\* a review has stored 1.16 at three repetitions: interval() is 7, not 8
C7_Witness ==
    /\ Reviewed
    /\ item = [repetitions |-> 3, efactor |-> 116]
    /\ interval(item) = 7
    /\ ~IsCeilOfSixTimesPower(7, 130, 1)

(***************************************************************************)
(* C8: answer_mut leaves the item answer returns on the state before the   *)
(* call, and answer returns the item answer_mut would leave.               *)
(***************************************************************************)
C8_MutAgrees ==
    /\ op = "answer_mut" => [panic |-> panicked, item |-> item] = answer(pre, given)
    /\ op = "answer" => [panic |-> panicked, item |-> item] = answer_mut(pre, given)

C8_Witness ==
    op = "answer_mut" /\ given = "Three" /\ item.repetitions = pre.repetitions + 1
        /\ item.efactor # pre.efactor

(***************************************************************************)
(* C9: a == b terminates for every pair of grades and is true exactly when *)
(* Ord::cmp gives Equal.                                                   *)
(***************************************************************************)
C9_EqTerminates ==
    /\ eq.status # "aborted"
    /\ eq.status = "returned" => eq.result = (cmp(eq.self, eq.other) = "Equal")

(***************************************************************************)
(* C10 (as claimed): from Item::new(), a review with Three, Four or Five   *)
(* never shortens the schedule.                                            *)
(***************************************************************************)
C10_SuccessNeverShortens ==
    (origin = "new" /\ Reviewed /\ ~panicked /\ given \in Success) =>
        interval(item) >= interval(pre)

(***************************************************************************)
(* C10 (amended): from Item::new(), a review with Four or Five never       *)
(* shortens the schedule (a review with Three can).                        *)
(***************************************************************************)
C10_FourFiveNeverShorten ==
    (origin = "new" /\ Reviewed /\ ~panicked /\ given \in {"Four", "Five"}) =>
        interval(item) >= interval(pre)

C10_Witness ==
    /\ origin = "new" /\ Reviewed /\ given = "Four"
    /\ pre.repetitions >= 3
    /\ interval(item) > interval(pre)

====
